---- MODULE Spec2Model ----
(***************************************************************************)
(* The messaging core of the Marketplace backend (routers/messages.py)     *)
(* over the document store declared in models.py, with the listing         *)
(* operation that changes the sold flag (routers/products.py).             *)
(*                                                                         *)
(* Identifiers are kept as texts (sequences of characters): the handlers   *)
(* receive them as strings, compare some of them as strings and parse      *)
(* others into ObjectIds, and the two do not agree on letter case.         *)
(***************************************************************************)
EXTENDS Integers, Sequences, FiniteSets, TLC

VARIABLES
    store,      \* the "messages" collection, in insertion order
    requested,  \* history: for each stored message, the product= argument send_message gave the constructor
    products,   \* the "products" collection: ObjectId -> document
    now,        \* the clock read by datetime.utcnow(), in store ticks
    resp,       \* the request just served and its response, until the client has it
    calls,      \* the get_conversation calls of the concurrent readers, by reader
    sending     \* a send_message call of a further client, between its checks and its insert

vars == <<store, requested, products, now, resp, calls, sending>>

----------------------------------------------------------------------------
(* Bounds of the model *)

MaxMsgs == 2

----------------------------------------------------------------------------
(* Texts and ObjectIds *)

\* Length of the hexadecimal spelling of an ObjectId (24 in the driver, scaled)
OidLen == 2

\* Ticks of the store clock per second (1000 in the store, scaled)
TicksPerSec == 2

\* Characters after which msg.content is cut for the preview
PreviewLen == 40

\* Message.content: Field(..., max_length=1000)
ContentMax == 1000

HexDigits ==
    {"0", "1", "2", "3", "4", "5", "6", "7", "8", "9",
     "a", "b", "c", "d", "e", "f", "A", "B", "C", "D", "E", "F"}

LowerChar(c) ==
    CASE c = "A" -> "a" [] c = "B" -> "b" [] c = "C" -> "c"
      [] c = "D" -> "d" [] c = "E" -> "e" [] c = "F" -> "f"
      [] OTHER -> c

UpperChar(c) ==
    CASE c = "a" -> "A" [] c = "b" -> "B" [] c = "c" -> "C"
      [] c = "d" -> "D" [] c = "e" -> "E" [] c = "f" -> "F"
      [] OTHER -> c

LowerText(s) == [i \in 1..Len(s) |-> LowerChar(s[i])]
UpperText(s) == [i \in 1..Len(s) |-> UpperChar(s[i])]

\* Python's None, and the text str(None)
None == <<>>
NoneText == <<"N", "o", "n", "e">>

\* `if data.product_id:` -- None and the empty string are both falsy
Truthy(text) == text # <<>>

\* PydanticObjectId(text): a text of OidLen hexadecimal digits in either
\* letter case names the ObjectId; anything else raises.
IsOidText(text) == Len(text) = OidLen /\ \A i \in 1..Len(text) : text[i] \in HexDigits
PydanticObjectId(text) == LowerText(text)

\* str(x) of an ObjectId (lower-case hexadecimal) or of None
Str(x) == IF x = None THEN NoneText ELSE x

\* The identities and listings of the store, by ObjectId
Alice == <<"a", "1">>
Bob == <<"b", "2">>
Nobody == <<"c", "3">>
Lamp == <<"d", "4">>
NoListing == <<"e", "5">>
Malformed == <<"z", "z">>

Carol == <<"f", "6">>

\* The users collection
Users == {Alice, Bob, Carol}

\* User.role (models.py: default "user"); Carol was given the admin role
Role(u) == IF u = Carol THEN "admin" ELSE "user"

\* The users whose clients call the messaging routes
Callers == {Alice, Bob}

\* What a client may put in an id field of a request
UserTexts == Callers \cup {UpperText(Alice), Nobody, Malformed}
ProductTexts == {None, Lamp, NoListing, Malformed}

Short == <<"h", "i">>
TooLong == [i \in 1..(ContentMax + 1) |-> "x"]
Contents == {Short, TooLong}

\* Contents at the preview limit and one character over it
AtLimit == [i \in 1..PreviewLen |-> "y"]
OverLimit == [i \in 1..(PreviewLen + 1) |-> "y"]

----------------------------------------------------------------------------
(* Documents (models.py) *)

\* The fields Message declares; a keyword the class does not declare is
\* dropped by the constructor and is no attribute of the document.
MessageFields == {"sender", "receiver", "content", "created_at", "is_read"}

MessageDefault(f) == IF f = "is_read" THEN FALSE ELSE None

\* Message(**kwargs), then insert() giving it the next id
Message(kwargs, id) ==
    [f \in MessageFields \cup {"id"} |->
        IF f = "id" THEN id
        ELSE IF f \in DOMAIN kwargs THEN kwargs[f]
        ELSE MessageDefault(f)]

HasAttr(doc, f) == f \in DOMAIN doc

\* Product.seller as stored: a Link, or one of the older shapes
LinkTo(u) == [shape |-> "link", id |-> u]

\* An object with a fetch attribute whose call raises
FailingLink == [shape |-> "failing_link"]

\* The values found in a stored mapping: an ObjectId, a string, None, or a
\* nested mapping with its keys and what it holds under "$oid"
OidValue(oid) == [kind |-> "oid", v |-> oid]
StrValue(text) == [kind |-> "str", v |-> text]
NoValue == [kind |-> "none", v |-> None]
DictValue(keys, oid) == [kind |-> "dict", keys |-> keys, v |-> oid]

\* A mapping: its keys, and what it holds under "id" and under "$id"
DictRef(keys, id, dbref) == [shape |-> "dict", keys |-> keys, id |-> id, dbref |-> dbref]

\* A bare string, and anything else (a number, a bare ObjectId, None)
StrRef(text) == [shape |-> "str", id |-> text]
OtherRef == [shape |-> "other"]

\* str(value); the repr of a mapping is not an id
DictRepr == <<"{", "}">>
StrOf(val) ==
    IF val.kind = "dict" THEN DictRepr
    ELSE IF val.kind = "none" THEN NoneText
    ELSE val.v

\* User.get / Product.get
UserExists(oid) == oid \in Users
ProductExists(oid) == oid \in DOMAIN products

\* What a resolver call comes to: a value returned, or an exception
Returned(value) == [raised |-> FALSE, value |-> value]
Raised == [raised |-> TRUE, value |-> None]

\* hasattr(s, "fetch")
HasFetch(s) == s.shape \in {"link", "failing_link"}

\* doc = await s.fetch(); return str(doc.id) -- Link.fetch() gives the
\* document, or the link itself when the document is gone, and a link has
\* no attribute id
FetchSeller(s) ==
    IF s.shape = "link" /\ UserExists(s.id) THEN Returned(Str(s.id)) ELSE Raised

\* The resolver below its try block: the mapping shapes, the string, None
AfterLink(s) ==
    IF s.shape = "dict" /\ "id" \in s.keys THEN Returned(StrOf(s.id))
    ELSE IF s.shape = "dict" /\ "$id" \in s.keys
    THEN IF s.dbref.kind = "dict" /\ "$oid" \in s.dbref.keys
         THEN Returned(StrOf(s.dbref.v))
         ELSE Returned(StrOf(s.dbref))
    ELSE IF s.shape = "str" THEN Returned(s.id)
    ELSE Returned(None)

\* (mutant) the fetch is not wrapped in try/except
SellerIdOfUnguarded(s) ==
    IF HasFetch(s) THEN FetchSeller(s) ELSE AfterLink(s)

\* _product_seller_id / _extract_seller_id on the seller reference s
SellerIdOf(s) ==
    IF HasFetch(s) /\ ~FetchSeller(s).raised THEN FetchSeller(s) ELSE AfterLink(s)

ProductSellerId(product) == SellerIdOf(product.seller).value

----------------------------------------------------------------------------
(* Queries on the messages collection *)

Ids == 1..Len(store)

\* {"sender.$id": u} or {"receiver.$id": u}
Involves(doc, u) == doc.sender = u \/ doc.receiver = u

\* (mutant) the base of the thread query leaves out the caller
BetweenPeer(doc, u, c) == doc.sender = c \/ doc.receiver = c

\* base of get_conversation: both directions between two users
Between(doc, u, c) ==
    \/ doc.sender = u /\ doc.receiver = c
    \/ doc.sender = c /\ doc.receiver = u

\* {"product.$id": pid} when a product document is given, else
\* {"product": None}, which also matches a document without the field
ProdFilter(doc, pid) ==
    IF pid # None
    THEN HasAttr(doc, "product") /\ doc["product"] = pid
    ELSE ~HasAttr(doc, "product") \/ doc["product"] = None

\* The orders in which a sorted find may return the documents `ids`:
\* created_at ascending (or descending), equal keys in any order
Orders(ids, descending) ==
    {o \in [1..Cardinality(ids) -> ids] :
        /\ \A i, j \in DOMAIN o : i # j => o[i] # o[j]
        /\ \A i, j \in DOMAIN o : i < j =>
            IF descending
            THEN store[o[i]].created_at >= store[o[j]].created_at
            ELSE store[o[i]].created_at <= store[o[j]].created_at}

\* get_unread_count: {"receiver.$id": u, "is_read": False}
UnreadCount(u) ==
    Cardinality({i \in Ids : store[i].receiver = u /\ ~store[i].is_read})

\* unread_filter of get_inbox
ThreadUnread(u, c, pid) ==
    Cardinality({i \in Ids :
        /\ store[i].sender = c
        /\ store[i].receiver = u
        /\ ~store[i].is_read
        /\ ProdFilter(store[i], pid)})

----------------------------------------------------------------------------
(* get_inbox *)

\* created_at.isoformat(): the seconds, and the fraction only when it is
\* not zero; texts of this form are compared as Python compares strings
IsoFormat(t) ==
    IF t % TicksPerSec = 0
    THEN <<t \div TicksPerSec>>
    ELSE <<t \div TicksPerSec, t % TicksPerSec>>

RECURSIVE TextLess(_, _)
TextLess(a, b) ==
    IF a = <<>> THEN b # <<>>
    ELSE IF b = <<>> THEN FALSE
    ELSE IF Head(a) # Head(b) THEN Head(a) < Head(b)
    ELSE TextLess(Tail(a), Tail(b))

\* msg.content[:40] + "..." if len(msg.content) > 40 else msg.content
Preview(content) ==
    IF Len(content) > PreviewLen
    THEN SubSeq(content, 1, PreviewLen) \o <<".", ".", ".">>
    ELSE content

\* f"{other_user_id}::{product_id or 'no_product'}"
ConvKey(other, pid) == <<Str(other), IF pid # None THEN Str(pid) ELSE <<"no_product">> >>

HasKey(convs, key) == \E k \in DOMAIN convs : convs[k].key = key

\* The row built for the first message seen of a conversation
Summary(msg, u, other, pid) ==
    [key |-> ConvKey(other, pid),
     user_id |-> Str(other),
     preview |-> Preview(msg.content),
     last_message |-> msg.content,
     sent_by_me |-> (msg.sender = u),
     timestamp |-> IsoFormat(msg.created_at),
     is_read |-> msg.is_read,
     unread_count |-> ThreadUnread(u, other, pid),
     product_id |-> IF pid # None THEN Str(pid) ELSE None,
     product_is_sold |-> IF pid # None THEN products[pid].is_sold ELSE None]

\* (mutant) a message whose listing cannot be read is left out of the inbox
RECURSIVE InboxScanBestEffort(_, _, _)
InboxScanBestEffort(ms, u, convs) ==
    IF ms = <<>> THEN [ok |-> TRUE, convs |-> convs]
    ELSE
        LET msg == Head(ms)
            other == IF msg.sender = u THEN msg.receiver ELSE msg.sender
        IN  IF ~HasAttr(msg, "product") THEN InboxScanBestEffort(Tail(ms), u, convs)
            ELSE IF msg["product"] # None /\ ~ProductExists(msg["product"])
            THEN InboxScanBestEffort(Tail(ms), u, convs)
            ELSE
                LET pid == msg["product"]
                    key == ConvKey(other, pid)
                IN  IF HasKey(convs, key)
                    THEN InboxScanBestEffort(Tail(ms), u, convs)
                    ELSE InboxScanBestEffort(Tail(ms), u, Append(convs, Summary(msg, u, other, pid)))

\* The loop over the fetched messages; convs is the dict in insertion order.
\* Reading msg.product of a document without that attribute raises, and so
\* does reading .id of a product link whose document is gone.
RECURSIVE InboxScan(_, _, _)
InboxScan(ms, u, convs) ==
    IF ms = <<>> THEN [ok |-> TRUE, convs |-> convs]
    ELSE
        LET msg == Head(ms)
            other == IF msg.sender = u THEN msg.receiver ELSE msg.sender
        IN  IF ~HasAttr(msg, "product") THEN [ok |-> FALSE, convs |-> <<>>]
            ELSE IF msg["product"] # None /\ ~ProductExists(msg["product"])
            THEN [ok |-> FALSE, convs |-> <<>>]
            ELSE
                LET pid == msg["product"]
                    key == ConvKey(other, pid)
                IN  IF HasKey(convs, key)
                    THEN InboxScan(Tail(ms), u, convs)
                    ELSE InboxScan(Tail(ms), u, Append(convs, Summary(msg, u, other, pid)))

\* sorted(conversations.values(), key=timestamp, reverse=True): stable, rows
\* of equal timestamp stay in insertion order
RECURSIVE InsertByTimestamp(_, _)
InsertByTimestamp(sorted, row) ==
    IF sorted = <<>> THEN <<row>>
    ELSE IF TextLess(Head(sorted).timestamp, row.timestamp)
    THEN <<row>> \o sorted
    ELSE <<Head(sorted)>> \o InsertByTimestamp(Tail(sorted), row)

RECURSIVE SortedLatestFirst(_)
SortedLatestFirst(rows) ==
    IF rows = <<>> THEN <<>>
    ELSE InsertByTimestamp(SortedLatestFirst(SubSeq(rows, 1, Len(rows) - 1)), rows[Len(rows)])

----------------------------------------------------------------------------
(* Requests and responses *)

Response(op, u, to, product, status, detail, body) ==
    [op |-> op, user |-> u, to |-> to, product |-> product, content |-> None,
     status |-> status, detail |-> detail, body |-> body]

NoResponse == Response("none", None, None, None, 200, "ok", None)

\* The client has the last response and may make its next request
Idle == resp = NoResponse

\* (mutant) the lockout forgets the seller's exemption
SoldLockoutEveryone(u, product) == product.is_sold

\* send_message: the item is sold and the caller is not its resolved seller
SoldLockout(u, product) ==
    product.is_sold /\ Str(u) # Str(ProductSellerId(product))

\* (mutant) the receiver is parsed but never looked up
SendCheckNoReceiverLookup(u, rtext, content, ptext) ==
    IF rtext = Str(u) THEN [status |-> 400, detail |-> "Cannot send message to yourself"]
    ELSE IF ~IsOidText(rtext) THEN [status |-> 400, detail |-> "Invalid receiver ID"]
    ELSE IF Truthy(ptext) /\ ~IsOidText(ptext) THEN [status |-> 400, detail |-> "Invalid product ID"]
    ELSE IF Truthy(ptext) /\ ~ProductExists(PydanticObjectId(ptext))
    THEN [status |-> 404, detail |-> "Product not found"]
    ELSE IF Truthy(ptext) /\ SoldLockout(u, products[PydanticObjectId(ptext)])
    THEN [status |-> 400, detail |-> "This item has been sold. Messaging is closed."]
    ELSE IF Len(content) > ContentMax THEN [status |-> 500, detail |-> "Internal Server Error"]
    ELSE [status |-> 200, detail |-> "ok"]

\* send_message up to the insert: the HTTPException raised, the validation
\* error of the Message constructor (an unhandled exception: 500), or "ok"
SendCheck(u, rtext, content, ptext) ==
    IF rtext = Str(u) THEN [status |-> 400, detail |-> "Cannot send message to yourself"]
    ELSE IF ~IsOidText(rtext) THEN [status |-> 400, detail |-> "Invalid receiver ID"]
    ELSE IF ~UserExists(PydanticObjectId(rtext)) THEN [status |-> 404, detail |-> "Receiver not found"]
    ELSE IF Truthy(ptext) /\ ~IsOidText(ptext) THEN [status |-> 400, detail |-> "Invalid product ID"]
    ELSE IF Truthy(ptext) /\ ~ProductExists(PydanticObjectId(ptext))
    THEN [status |-> 404, detail |-> "Product not found"]
    ELSE IF Truthy(ptext) /\ SoldLockout(u, products[PydanticObjectId(ptext)])
    THEN [status |-> 400, detail |-> "This item has been sold. Messaging is closed."]
    ELSE IF Len(content) > ContentMax THEN [status |-> 500, detail |-> "Internal Server Error"]
    ELSE [status |-> 200, detail |-> "ok"]

\* product_doc of send_message and get_conversation once the checks passed
ProductDoc(ptext) == IF Truthy(ptext) THEN PydanticObjectId(ptext) ELSE None

\* POST /messages/; dt is the time on the clock since the previous send
SendMessage(u, rtext, content, ptext, dt) ==
    LET chk == SendCheck(u, rtext, content, ptext)
        request == [Response("send", u, rtext, ptext, chk.status, chk.detail, None)
                        EXCEPT !.content = content]
    IN
    Idle /\
    IF chk.status # 200
    THEN /\ resp' = request
         /\ UNCHANGED <<store, requested, products, now, calls, sending>>
    ELSE LET message == Message(
                 [sender |-> u,
                  receiver |-> PydanticObjectId(rtext),
                  content |-> content,
                  product |-> ProductDoc(ptext),
                  created_at |-> now + dt],
                 Len(store) + 1)
         IN  /\ Len(store) < MaxMsgs
             /\ now' = now + dt
             /\ store' = Append(store, message)
             /\ requested' = Append(requested, ProductDoc(ptext))
             /\ resp' = [request EXCEPT !.body = message]
             /\ UNCHANGED <<products, calls, sending>>

\* GET /messages/: the documents that involve the caller, newest first
GetMyMessages(u) ==
    /\ Idle
    /\ \E o \in Orders({i \in Ids : Involves(store[i], u)}, TRUE) :
         resp' = Response("my_messages", u, None, None, 200, "ok",
                          [k \in DOMAIN o |-> store[o[k]]])
    /\ UNCHANGED <<store, requested, products, now, calls, sending>>

\* GET /messages/unread/count
GetUnreadCount(u) ==
    /\ Idle
    /\ resp' = Response("unread_count", u, None, None, 200, "ok", UnreadCount(u))
    /\ UNCHANGED <<store, requested, products, now, calls, sending>>

\* GET /messages/inbox
GetInbox(u) ==
    /\ Idle
    /\ \E o \in Orders({i \in Ids : Involves(store[i], u)}, TRUE) :
         LET scan == InboxScan([k \in DOMAIN o |-> store[o[k]]], u, <<>>) IN
         resp' = IF scan.ok
                 THEN Response("inbox", u, None, None, 200, "ok", SortedLatestFirst(scan.convs))
                 ELSE Response("inbox", u, None, None, 500, "Internal Server Error", None)
    /\ UNCHANGED <<store, requested, products, now, calls, sending>>

\* (mutant) the product filter is built from the id without a lookup
ThreadCheckNoProductLookup(otext, ptext) ==
    IF ~IsOidText(otext) THEN [status |-> 400, detail |-> "Invalid user ID"]
    ELSE IF ~UserExists(PydanticObjectId(otext)) THEN [status |-> 404, detail |-> "User not found"]
    ELSE IF ~Truthy(ptext) THEN [status |-> 200, detail |-> "ok"]
    ELSE IF ~IsOidText(ptext) THEN [status |-> 400, detail |-> "Invalid product ID"]
    ELSE [status |-> 200, detail |-> "ok"]

\* get_conversation up to the query
ThreadCheck(otext, ptext) ==
    IF ~IsOidText(otext) THEN [status |-> 400, detail |-> "Invalid user ID"]
    ELSE IF ~UserExists(PydanticObjectId(otext)) THEN [status |-> 404, detail |-> "User not found"]
    ELSE IF ~Truthy(ptext) THEN [status |-> 200, detail |-> "ok"]
    ELSE IF ~IsOidText(ptext) THEN [status |-> 400, detail |-> "Invalid product ID"]
    ELSE IF ~ProductExists(PydanticObjectId(ptext)) THEN [status |-> 404, detail |-> "Product not found"]
    ELSE [status |-> 200, detail |-> "ok"]

\* (mutant) the thread is serialized after the update: received messages
\* are reported as read
ThreadItemAfterFlip(msg, u) ==
    [id |-> msg.id,
     content |-> msg.content,
     sent_by_me |-> (msg.sender = u),
     is_read |-> (msg.is_read \/ msg.receiver = u),
     created_at |-> IsoFormat(msg.created_at)]

\* One entry of the serialized thread
ThreadItem(msg, u) ==
    [id |-> msg.id,
     content |-> msg.content,
     sent_by_me |-> (msg.sender = u),
     is_read |-> msg.is_read,
     created_at |-> IsoFormat(msg.created_at)]

\* (mutant) the update inverts the flag of the documents it matches
MarkReadToggle(docs, u, c, pid) ==
    [i \in DOMAIN docs |->
        IF docs[i].sender = c /\ docs[i].receiver = u /\ ProdFilter(docs[i], pid)
        THEN [docs[i] EXCEPT !["is_read"] = ~docs[i].is_read]
        ELSE docs[i]]

\* (mutant) update_one in place of update_many: the first unread match only
MarkReadOne(docs, u, c, pid) ==
    LET unread == {i \in DOMAIN docs :
                      /\ docs[i].sender = c /\ docs[i].receiver = u
                      /\ ProdFilter(docs[i], pid) /\ ~docs[i].is_read}
    IN  [i \in DOMAIN docs |->
            IF i \in unread /\ \A j \in unread : i <= j
            THEN [docs[i] EXCEPT !["is_read"] = TRUE]
            ELSE docs[i]]

\* (mutant) the update matches the thread in both directions
MarkReadBothWays(docs, u, c, pid) ==
    [i \in DOMAIN docs |->
        IF Between(docs[i], u, c) /\ ProdFilter(docs[i], pid)
        THEN [docs[i] EXCEPT !["is_read"] = TRUE]
        ELSE docs[i]]

\* update_many({"$set": {"is_read": True}}) on the messages from c to u
\* in the product context, as it leaves the collection docs
MarkReadIn(docs, u, c, pid) ==
    [i \in DOMAIN docs |->
        IF docs[i].sender = c /\ docs[i].receiver = u /\ ProdFilter(docs[i], pid)
        THEN [docs[i] EXCEPT !["is_read"] = TRUE]
        ELSE docs[i]]

MarkRead(u, c, pid) == MarkReadIn(store, u, c, pid)

\* GET /messages/with/{other_user_id}
GetConversation(u, otext, ptext) ==
    LET chk == ThreadCheck(otext, ptext) IN
    Idle /\
    IF chk.status # 200
    THEN /\ resp' = Response("thread", u, otext, ptext, chk.status, chk.detail, None)
         /\ UNCHANGED <<store, requested, products, now, calls, sending>>
    ELSE LET c == PydanticObjectId(otext)
             pid == ProductDoc(ptext)
         IN  /\ \E o \in Orders({i \in Ids : Between(store[i], u, c) /\ ProdFilter(store[i], pid)}, FALSE) :
                  resp' = Response("thread", u, otext, ptext, 200, "ok",
                                   [other_user |-> Str(c),
                                    product |-> IF pid # None THEN Str(pid) ELSE None,
                                    messages |-> [k \in DOMAIN o |-> ThreadItem(store[o[k]], u)]])
             /\ store' = MarkRead(u, c, pid)
             /\ UNCHANGED <<requested, products, now, calls, sending>>

\* PATCH /products/{product_id}/mark_sold
MarkProductSold(u, ptext) ==
    Idle /\
    IF ~IsOidText(ptext)
    THEN /\ resp' = Response("mark_sold", u, None, ptext, 400, "Invalid product ID", None)
         /\ UNCHANGED <<store, requested, products, now, calls, sending>>
    ELSE IF ~ProductExists(PydanticObjectId(ptext))
    THEN /\ resp' = Response("mark_sold", u, None, ptext, 404, "Product not found", None)
         /\ UNCHANGED <<store, requested, products, now, calls, sending>>
    ELSE LET pid == PydanticObjectId(ptext) IN
         IF Str(ProductSellerId(products[pid])) # Str(u) /\ Role(u) # "admin"
         THEN /\ resp' = Response("mark_sold", u, None, ptext, 403, "Not authorized", None)
              /\ UNCHANGED <<store, requested, products, now, calls, sending>>
         ELSE /\ products' = [products EXCEPT ![pid].is_sold = TRUE]
              /\ resp' = Response("mark_sold", u, None, ptext, 200, "ok", None)
              /\ UNCHANGED <<store, requested, now, calls, sending>>

\* len(imgs) > 5
ImagesMax == 5

\* The update_data of a request: its keys, and what it holds under
\* "is_sold" and (a list of so many URLs) under "images"
Update(keys, is_sold, images) == [keys |-> keys, is_sold |-> is_sold, images |-> images]

Updates ==
    {Update({"is_sold"}, TRUE, 0), Update({"is_sold"}, FALSE, 0),
     Update({"seller"}, FALSE, 0), Update({"images", "is_sold"}, TRUE, ImagesMax + 1)}

\* The listing after product.set(safe_update): of the fields kept here the
\* whitelist lets is_sold through
Updated(product, data) ==
    IF "is_sold" \in data.keys THEN [product EXCEPT !.is_sold = data.is_sold] ELSE product

\* (mutant) the update goes ahead without the seller-or-admin check
UpdateProductUnchecked(u, ptext, data) ==
    Idle /\
    IF ~IsOidText(ptext)
    THEN /\ resp' = Response("update_product", u, None, ptext, 400, "Invalid product ID", None)
         /\ UNCHANGED <<store, requested, products, now, calls, sending>>
    ELSE IF ~ProductExists(PydanticObjectId(ptext))
    THEN /\ resp' = Response("update_product", u, None, ptext, 404, "Product not found", None)
         /\ UNCHANGED <<store, requested, products, now, calls, sending>>
    ELSE LET pid == PydanticObjectId(ptext) IN
         IF "images" \in data.keys /\ data.images > ImagesMax
         THEN /\ resp' = Response("update_product", u, None, ptext, 400, "Up to 5 images allowed", None)
              /\ UNCHANGED <<store, requested, products, now, calls, sending>>
         ELSE /\ products' = [products EXCEPT ![pid] = Updated(@, data)]
              /\ resp' = Response("update_product", u, None, ptext, 200, "ok", None)
              /\ UNCHANGED <<store, requested, now, calls, sending>>

\* PUT /products/{product_id}
UpdateProduct(u, ptext, data) ==
    Idle /\
    IF ~IsOidText(ptext)
    THEN /\ resp' = Response("update_product", u, None, ptext, 400, "Invalid product ID", None)
         /\ UNCHANGED <<store, requested, products, now, calls, sending>>
    ELSE IF ~ProductExists(PydanticObjectId(ptext))
    THEN /\ resp' = Response("update_product", u, None, ptext, 404, "Product not found", None)
         /\ UNCHANGED <<store, requested, products, now, calls, sending>>
    ELSE LET pid == PydanticObjectId(ptext) IN
         IF Str(ProductSellerId(products[pid])) # Str(u) /\ Role(u) # "admin"
         THEN /\ resp' = Response("update_product", u, None, ptext, 403, "Not authorized", None)
              /\ UNCHANGED <<store, requested, products, now, calls, sending>>
         ELSE IF "images" \in data.keys /\ data.images > ImagesMax
         THEN /\ resp' = Response("update_product", u, None, ptext, 400, "Up to 5 images allowed", None)
              /\ UNCHANGED <<store, requested, products, now, calls, sending>>
         ELSE /\ products' = [products EXCEPT ![pid] = Updated(@, data)]
              /\ resp' = Response("update_product", u, None, ptext, 200, "ok", None)
              /\ UNCHANGED <<store, requested, now, calls, sending>>

\* DELETE /products/{product_id}
DeleteProduct(u, ptext) ==
    Idle /\
    IF ~IsOidText(ptext)
    THEN /\ resp' = Response("delete_product", u, None, ptext, 400, "Invalid product ID", None)
         /\ UNCHANGED <<store, requested, products, now, calls, sending>>
    ELSE IF ~ProductExists(PydanticObjectId(ptext))
    THEN /\ resp' = Response("delete_product", u, None, ptext, 404, "Product not found", None)
         /\ UNCHANGED <<store, requested, products, now, calls, sending>>
    ELSE LET pid == PydanticObjectId(ptext) IN
         IF Str(ProductSellerId(products[pid])) # Str(u) /\ Role(u) # "admin"
         THEN /\ resp' = Response("delete_product", u, None, ptext, 403, "Not authorized", None)
              /\ UNCHANGED <<store, requested, products, now, calls, sending>>
         ELSE /\ products' = [q \in DOMAIN products \ {pid} |-> products[q]]
              /\ resp' = Response("delete_product", u, None, ptext, 200, "Product deleted", None)
              /\ UNCHANGED <<store, requested, now, calls, sending>>

\* seller_id = await _product_seller_id(product), as the handlers call it
ResolveSeller(pid) ==
    /\ Idle
    /\ ProductExists(pid)
    /\ resp' = Response("seller_id", None, None, pid, 200, "ok", SellerIdOf(products[pid].seller))
    /\ UNCHANGED <<store, requested, products, now, calls, sending>>

\* The response reaches the client
Deliver ==
    /\ ~Idle
    /\ resp' = NoResponse
    /\ UNCHANGED <<store, requested, products, now, calls, sending>>

----------------------------------------------------------------------------
(* get_conversation as the event loop runs it: the handler gives up control *)
(* at every await, so the find (lines 240-244) and the update_many (lines   *)
(* 260-263) of one call are two steps, and requests of other clients are    *)
(* served between them.                                                     *)

Readers == {"r1", "r2"}

\* One call: where it stands, its arguments, the serialized thread it will
\* return, and (history) the collection as its find saw it
Call(pc, u, otext, ptext, status, seen, before) ==
    [pc |-> pc, user |-> u, to |-> otext, product |-> ptext,
     status |-> status, seen |-> seen, before |-> before]

NoCall == Call("idle", None, None, None, 200, <<>>, <<>>)

\* Lines 213-258: the checks, the find and the serialization
ThreadFetch(p, u, otext, ptext) ==
    LET chk == ThreadCheck(otext, ptext) IN
    /\ calls[p].pc = "idle"
    /\ IF chk.status # 200
       THEN calls' = [calls EXCEPT ![p] = Call("done", u, otext, ptext, chk.status, <<>>, store)]
       ELSE LET c == PydanticObjectId(otext)
                pid == ProductDoc(ptext)
            IN  \E o \in Orders({i \in Ids : Between(store[i], u, c) /\ ProdFilter(store[i], pid)}, FALSE) :
                    calls' = [calls EXCEPT ![p] =
                                Call("fetched", u, otext, ptext, 200,
                                     [k \in DOMAIN o |-> ThreadItem(store[o[k]], u)], store)]
    /\ UNCHANGED <<store, requested, products, now, resp, sending>>

\* Lines 260-282: the update_many, then the response
ThreadFlip(p) ==
    /\ calls[p].pc = "fetched"
    /\ store' = MarkRead(calls[p].user, PydanticObjectId(calls[p].to), ProductDoc(calls[p].product))
    /\ calls' = [calls EXCEPT ![p].pc = "done"]
    /\ UNCHANGED <<requested, products, now, resp, sending>>

----------------------------------------------------------------------------
(* send_message as the event loop runs it: the listing is read at line 86, *)
(* the message is written at line 106, and requests of other clients are   *)
(* served between the two.                                                 *)

\* The call: where it stands, its arguments and its status
SendCall(pc, u, rtext, content, ptext, status) ==
    [pc |-> pc, user |-> u, to |-> rtext, content |-> content, product |-> ptext,
     status |-> status]

NoSend == SendCall("idle", None, None, None, None, 200)

\* Lines 67-97: the checks, on the listing as Product.get returns it
SendBegin(u, rtext, content, ptext) ==
    LET chk == SendCheck(u, rtext, content, ptext) IN
    /\ sending.pc = "idle"
    /\ sending' = SendCall(IF chk.status = 200 THEN "checked" ELSE "done",
                           u, rtext, content, ptext, chk.status)
    /\ UNCHANGED <<store, requested, products, now, resp, calls>>

\* Lines 99-107: the message is built and inserted
SendInsert ==
    /\ sending.pc = "checked"
    /\ Len(store) < MaxMsgs
    /\ now' = now + 1
    /\ store' = Append(store,
            Message([sender |-> sending.user,
                     receiver |-> PydanticObjectId(sending.to),
                     content |-> sending.content,
                     product |-> ProductDoc(sending.product),
                     created_at |-> now + 1],
                    Len(store) + 1))
    /\ requested' = Append(requested, ProductDoc(sending.product))
    /\ sending' = [sending EXCEPT !.pc = "done"]
    /\ UNCHANGED <<products, resp, calls>>

\* The response of the call reaches its client
SendReturn ==
    /\ sending.pc = "done"
    /\ sending' = NoSend
    /\ UNCHANGED <<store, requested, products, now, resp, calls>>

----------------------------------------------------------------------------
(* The system *)

Init ==
    /\ store = <<>>
    /\ requested = <<>>
    /\ products = [p \in {Lamp} |-> [seller |-> LinkTo(Alice), is_sold |-> FALSE]]
    /\ now = 0
    /\ resp = NoResponse
    /\ calls = [p \in Readers |-> NoCall]
    /\ sending = NoSend

\* The requests, one served at a time; sends are `ticks` apart on the clock
Requests(ticks) ==
    \/ \E u \in Callers, rtext \in UserTexts, content \in Contents, ptext \in ProductTexts,
          dt \in ticks :
         SendMessage(u, rtext, content, ptext, dt)
    \/ \E u \in Callers : GetMyMessages(u)
    \/ \E u \in Callers : GetUnreadCount(u)
    \/ \E u \in Callers : GetInbox(u)
    \/ \E u \in Callers, otext \in UserTexts, ptext \in ProductTexts :
         GetConversation(u, otext, ptext)
    \/ \E u \in Callers, ptext \in ProductTexts \ {None} : MarkProductSold(u, ptext)
    \/ Deliver

\* Every send at a later tick than the one before
Next == Requests({1})

Spec == Init /\ [][Next]_vars

\* Sends may also fall on the same tick: equal created_at
NextTies == Requests({0, 1})

SpecTies == Init /\ [][NextTies]_vars

\* Two readers open threads while a third client sends
NextReaders ==
    \/ \E u \in Callers : \E rtext \in Callers \ {u}, ptext \in {None, Lamp} :
         SendMessage(u, rtext, Short, ptext, 1)
    \/ Deliver
    \/ \E p \in Readers, u \in Callers : \E otext \in Callers \ {u}, ptext \in {None, Lamp} :
         ThreadFetch(p, u, otext, ptext)
    \/ \E p \in Readers : ThreadFlip(p)

SpecReaders == Init /\ [][NextReaders]_vars

\* Messages of the lengths around the preview limit, and the inbox
NextPreview ==
    \/ \E u \in Callers : \E rtext \in Callers \ {u}, content \in {Short, AtLimit, OverLimit} :
         SendMessage(u, rtext, content, None, 1)
    \/ \E u \in Callers : GetInbox(u)
    \/ Deliver

SpecPreview == Init /\ [][NextPreview]_vars

\* Three users write to one another and read
NextPrivacy ==
    \/ \E u \in Users : \E rtext \in Users \ {u} : SendMessage(u, rtext, Short, None, 1)
    \/ \E u \in Users : GetMyMessages(u)
    \/ \E u \in Users : GetUnreadCount(u)
    \/ \E u \in Users : GetInbox(u)
    \/ \E u \in Users, otext \in Users : GetConversation(u, otext, None)
    \/ Deliver

SpecPrivacy == Init /\ [][NextPrivacy]_vars

\* A client sends while another client marks the listing sold
NextSending ==
    \/ \E u \in Callers : \E rtext \in Callers \ {u}, ptext \in {None, Lamp} :
         SendBegin(u, rtext, Short, ptext)
    \/ SendInsert
    \/ SendReturn
    \/ \E u \in Callers : MarkProductSold(u, Lamp)
    \/ Deliver

SpecSending == Init /\ [][NextSending]_vars

\* The messaging core next to the listing routes that end a listing
NextListings ==
    \/ \E u \in Callers : \E rtext \in Callers \ {u}, ptext \in {None, Lamp} :
         SendMessage(u, rtext, Short, ptext, 1)
    \/ \E u \in Callers : GetInbox(u)
    \/ \E u \in Callers, ptext \in ProductTexts \ {None} : MarkProductSold(u, ptext)
    \/ \E u \in Callers, ptext \in ProductTexts \ {None} : DeleteProduct(u, ptext)
    \/ Deliver

SpecListings == Init /\ [][NextListings]_vars

\* The seller references a stored listing may carry
SellerRefs ==
    {LinkTo(Alice), LinkTo(Bob), LinkTo(Nobody), FailingLink,
     DictRef({"id", "collection"}, OidValue(Alice), NoValue),
     DictRef({"id"}, StrValue(UpperText(Bob)), NoValue),
     DictRef({"id", "$id"}, OidValue(Alice), OidValue(Bob)),
     DictRef({"$ref", "$id"}, NoValue, OidValue(Bob)),
     DictRef({"$id"}, NoValue, DictValue({"$oid"}, StrValue(Alice))),
     DictRef({"$id"}, NoValue, DictValue({"$date"}, NoValue)),
     DictRef({"name"}, NoValue, NoValue),
     StrRef(Alice), StrRef(UpperText(Alice)), StrRef(Malformed),
     OtherRef}

\* The resolver on every shape of reference: the listing is stored with
\* any of them, and the handlers that resolve its seller are called
InitShapes ==
    /\ store = <<>>
    /\ requested = <<>>
    /\ \E s \in SellerRefs, sold \in BOOLEAN :
         products = [p \in {Lamp} |-> [seller |-> s, is_sold |-> sold]]
    /\ now = 0
    /\ resp = NoResponse
    /\ calls = [p \in Readers |-> NoCall]
    /\ sending = NoSend

NextShapes ==
    \/ ResolveSeller(Lamp)
    \/ \E u \in Callers : \E rtext \in Callers \ {u} : SendMessage(u, rtext, Short, Lamp, 1)
    \/ \E u \in Callers : MarkProductSold(u, Lamp)
    \/ Deliver

SpecShapes == InitShapes /\ [][NextShapes]_vars

\* The listing routes that change a listing, called by the two users and
\* by the admin on a listing of any seller reference
NextAuth ==
    \/ \E u \in Users, data \in Updates : UpdateProduct(u, Lamp, data)
    \/ \E u \in Users : DeleteProduct(u, Lamp)
    \/ \E u \in Users : MarkProductSold(u, Lamp)
    \/ Deliver

SpecAuth == InitShapes /\ [][NextAuth]_vars

----------------------------------------------------------------------------
(* Vocabulary of the properties *)

\* The listing a stored message was sent for (None: not listing-scoped)
Scope(i) == requested[i]

\* The listing a stored document carries
ListingOf(doc) == IF HasAttr(doc, "product") THEN doc["product"] ELSE None

\* The other party of message i from u's viewpoint
Counterpart(i, u) == IF store[i].sender = u THEN store[i].receiver ELSE store[i].sender

\* The messages of u's conversation with c about listing L
Conversation(u, c, L) ==
    {i \in Ids : Involves(store[i], u) /\ Counterpart(i, u) = c /\ Scope(i) = L}

\* A request that resolved: the counterpart and listing it names
ThreadOk == resp.op = "thread" /\ resp.status = 200
InboxCalled == resp.op = "inbox"
RespPeer == PydanticObjectId(resp.to)
RespListing == ProductDoc(resp.product)

\* The rows of an inbox response that are about conversation (c, L)
RowsFor(c, L) ==
    {k \in DOMAIN resp.body :
        /\ resp.body[k].user_id = Str(c)
        /\ resp.body[k].product_id = (IF L # None THEN Str(L) ELSE None)}

----------------------------------------------------------------------------
(* C1: no stored message has its sender as its receiver: a send to        *)
(* oneself is rejected before anything is persisted.                       *)
C1_NoSelfMessage ==
    \A i \in Ids : store[i].sender # store[i].receiver

----------------------------------------------------------------------------
(* C2 *)

\* The send passed the receiver checks, names an existing, sold listing and
\* has a content the Message accepts
SendOnSoldListing ==
    /\ resp.op = "send"
    /\ resp.to # Str(resp.user)
    /\ IsOidText(resp.to)
    /\ UserExists(PydanticObjectId(resp.to))
    /\ Truthy(resp.product)
    /\ IsOidText(resp.product)
    /\ ProductExists(PydanticObjectId(resp.product))
    /\ products[PydanticObjectId(resp.product)].is_sold
    /\ Len(resp.content) <= ContentMax

CallerIsSeller ==
    Str(resp.user) = Str(ProductSellerId(products[PydanticObjectId(resp.product)]))

SendAppended ==
    /\ resp.status = 200
    /\ Len(store) > 0
    /\ store[Len(store)] = resp.body
    /\ resp.body.sender = resp.user
    /\ resp.body.receiver = PydanticObjectId(resp.to)

C2_LockedOut == SendOnSoldListing /\ ~CallerIsSeller /\ resp.status = 400

----------------------------------------------------------------------------
(* C3: opening the thread (u, c, L) changes is_read of no message whose    *)
(* listing scope differs from L.                                           *)
C3_ReadFlipScoped ==
    [][(resp'.op = "thread" /\ resp'.status = 200) =>
        \A i \in Ids :
            Scope(i) # ProductDoc(resp'.product) => store'[i].is_read = store[i].is_read]_vars

----------------------------------------------------------------------------
(* C4: once the thread (u, c, L) has been opened, every message from c to  *)
(* u about L is read, and the inbox of u then shows unread_count = 0 for   *)
(* the conversation (c, L).                                                *)
C4_ThreadOpenMarksRead ==
    /\ ThreadOk =>
        \A i \in Conversation(resp.user, RespPeer, RespListing) :
            store[i].receiver = resp.user => store[i].is_read
    /\ InboxCalled =>
        \A c \in Users, L \in {None, Lamp} :
            (/\ Conversation(resp.user, c, L) # {}
             /\ \A i \in Conversation(resp.user, c, L) :
                    store[i].receiver = resp.user => store[i].is_read)
            => /\ resp.status = 200
               /\ RowsFor(c, L) # {}
               /\ \A k \in RowsFor(c, L) : resp.body[k].unread_count = 0

----------------------------------------------------------------------------
(* Inbox responses *)

Listings == {None, Lamp}

\* The messages that involve the caller of the inbox request
Involved == {i \in Ids : Involves(store[i], resp.user)}

\* The conversation of the caller that message i belongs to
RowsOf(i) == RowsFor(Counterpart(i, resp.user), Scope(i))

\* The conversations the caller has
ConvsOf(u) ==
    {cl \in Users \X Listings : Conversation(u, cl[1], cl[2]) # {}}

\* The greatest created_at among the messages ids
Latest(ids) == {i \in ids : \A j \in ids : store[j].created_at <= store[i].created_at}

RECURSIVE SumUnread(_)
SumUnread(rows) ==
    IF rows = <<>> THEN 0 ELSE Head(rows).unread_count + SumUnread(Tail(rows))

----------------------------------------------------------------------------
(* C5: the inbox of u groups the messages involving u into a partition:    *)
(* each of them belongs to exactly one returned conversation, and every    *)
(* returned conversation is made of such messages.                         *)
C5_InboxPartition ==
    InboxCalled =>
        /\ resp.status = 200
        /\ \A i \in Involved : Cardinality(RowsOf(i)) = 1
        /\ \A k \in DOMAIN resp.body : \E i \in Involved : k \in RowsOf(i)

----------------------------------------------------------------------------
(* C6: the unread count of u is the sum of the unread_count fields of the  *)
(* conversations the inbox of u returns.                                   *)
C6_UnreadSum ==
    InboxCalled =>
        /\ resp.status = 200
        /\ SumUnread(resp.body) = UnreadCount(resp.user)

----------------------------------------------------------------------------
(* C7: the inbox returns one summary per conversation, and its             *)
(* representative is a message of greatest created_at in the conversation. *)
C7_InboxRepresentative ==
    InboxCalled =>
        /\ resp.status = 200
        /\ Len(resp.body) = Cardinality(ConvsOf(resp.user))
        /\ \A cl \in ConvsOf(resp.user) :
            /\ Cardinality(RowsFor(cl[1], cl[2])) = 1
            /\ \A k \in RowsFor(cl[1], cl[2]) :
                \E i \in Latest(Conversation(resp.user, cl[1], cl[2])) :
                    /\ resp.body[k].last_message = store[i].content
                    /\ resp.body[k].timestamp = IsoFormat(store[i].created_at)
                    /\ resp.body[k].sent_by_me = (store[i].sender = resp.user)
                    /\ resp.body[k].is_read = store[i].is_read

----------------------------------------------------------------------------
(* C8: of two conversations of u whose latest messages are at T2 < T3,     *)
(* the inbox of u lists the one at T3 before the one at T2.                *)
C8_InboxLatestFirst ==
    InboxCalled =>
        \A a, b \in ConvsOf(resp.user) :
            (\E i \in Latest(Conversation(resp.user, a[1], a[2])),
                j \in Latest(Conversation(resp.user, b[1], b[2])) :
                    store[i].created_at > store[j].created_at)
            => /\ resp.status = 200
               /\ \E ka \in RowsFor(a[1], a[2]), kb \in RowsFor(b[1], b[2]) : ka < kb
               /\ \A ka \in RowsFor(a[1], a[2]), kb \in RowsFor(b[1], b[2]) : ka < kb

----------------------------------------------------------------------------
(* C9: the thread (u, c, L) returns exactly the messages between u and c   *)
(* whose listing scope is L, oldest first.                                 *)
C9_ThreadContents ==
    ThreadOk =>
        LET items == resp.body.messages IN
        /\ {items[k].id : k \in DOMAIN items} =
                {i \in Ids : Between(store[i], resp.user, RespPeer) /\ Scope(i) = RespListing}
        /\ \A j, k \in DOMAIN items :
                j < k => /\ items[j].id # items[k].id
                         /\ store[items[j].id].created_at <= store[items[k].id].created_at

----------------------------------------------------------------------------
(* C10: a successful send appends exactly one message, from the caller to  *)
(* the receiver, unread, carrying the listing it was sent for, and leaves  *)
(* the stored messages as they were.                                       *)
C10_SendAppendsScoped ==
    [][(resp'.op = "send" /\ resp'.status = 200) =>
        /\ Len(store') = Len(store) + 1
        /\ SubSeq(store', 1, Len(store)) = store
        /\ store'[Len(store')].sender = resp'.user
        /\ store'[Len(store')].receiver = PydanticObjectId(resp'.to)
        /\ store'[Len(store')].is_read = FALSE
        /\ ListingOf(store'[Len(store')]) = ProductDoc(resp'.product)]_vars

----------------------------------------------------------------------------
(* Concurrent readers *)

\* Reader p runs its update_many in this step
Flips(p) == calls[p].pc = "fetched" /\ calls'[p].pc = "done"

\* The stored messages in the list the call of reader p returns
SeenIds(p) == {calls[p].seen[k].id : k \in DOMAIN calls[p].seen}

\* The arguments of the call of reader p, resolved
CallPeer(p) == PydanticObjectId(calls[p].to)
CallListing(p) == ProductDoc(calls[p].product)

----------------------------------------------------------------------------
(* C11: a thread call never turns is_read to true on a message that is not *)
(* in the message list the same call returns, whatever sends are served    *)
(* between its find and its update.                                        *)
C11_FlipOnlyReturned ==
    [][\A p \in Readers :
        Flips(p) =>
            \A i \in Ids :
                (~store[i].is_read /\ store'[i].is_read) => i \in SeenIds(p)]_vars

----------------------------------------------------------------------------
(* C13: after GetThread(u, c, L) has been served, serving the same call    *)
(* again on the store it left changes the is_read of no stored message.    *)
C13_ThreadReadIdempotent ==
    ThreadOk => MarkRead(resp.user, RespPeer, RespListing) = store

\* A thread was opened and holds a message the call turned to read
C13_Witness ==
    /\ ThreadOk
    /\ \E k \in DOMAIN resp.body.messages :
        /\ ~resp.body.messages[k].is_read
        /\ store[resp.body.messages[k].id].is_read

----------------------------------------------------------------------------
(* C14 *)

\* Both readers have been answered, for the same thread of the same user
BothReadSameThread ==
    /\ \A p \in Readers : calls[p].pc = "done" /\ calls[p].status = 200
    /\ \A p, q \in Readers :
        /\ calls[p].user = calls[q].user
        /\ calls[p].to = calls[q].to
        /\ calls[p].product = calls[q].product

\* No message was stored since either reader ran its find
NoSendSince == \A p \in Readers : Len(calls[p].before) = Len(store)

\* C14: two calls GetThread(u, c, L) of the same user, their finds and
\* updates interleaved in any way and no message sent meanwhile, leave the
\* store as one such call leaves the store that either of them found.
C14_TwoReadersAsOne ==
    (BothReadSameThread /\ NoSendSince) =>
        \A p \in Readers :
            store = MarkReadIn(calls[p].before, calls[p].user, CallPeer(p), CallListing(p))

\* Both readers found the same unread message before either update ran
C14_Witness ==
    /\ BothReadSameThread
    /\ NoSendSince
    /\ \E i \in Ids : \A p \in Readers :
        /\ i \in SeenIds(p)
        /\ ~calls[p].before[i].is_read
        /\ store[i].is_read

----------------------------------------------------------------------------
(* C12 *)

\* The counterpart and the listing a row of the inbox names
RowPeer(row) == PydanticObjectId(row.user_id)
RowListing(row) == IF row.product_id = None THEN None ELSE PydanticObjectId(row.product_id)

\* The messages get_inbox files under the key of a row
GroupedUnder(row) ==
    {i \in Involved : ConvKey(Counterpart(i, resp.user), ListingOf(store[i])) = row.key}

\* The messages GetThread(u, c, L) returns, and those it turns to read
ThreadOf(u, c, L) == {i \in Ids : Between(store[i], u, c) /\ ProdFilter(store[i], L)}
FlippedBy(u, c, L) == {i \in Ids : MarkRead(u, c, L)[i] # store[i]}

\* C12: the inbox of u answers, and for every conversation (c, L) it
\* returns, the messages grouped under (c, L) are the messages
\* GetThread(u, c, L) returns, unread_count is the number of messages that
\* call would turn to read, and the representative is a last message of
\* that thread.
C12_InboxAgreesWithThread ==
    InboxCalled =>
        /\ resp.status = 200
        /\ Len(resp.body) = Cardinality(ConvsOf(resp.user))
        /\ \A k \in DOMAIN resp.body :
            LET row == resp.body[k]
                thread == ThreadOf(resp.user, RowPeer(row), RowListing(row))
            IN  /\ GroupedUnder(row) = thread
                /\ row.unread_count =
                        Cardinality(FlippedBy(resp.user, RowPeer(row), RowListing(row)))
                /\ \E i \in Latest(thread) :
                    /\ row.last_message = store[i].content
                    /\ row.timestamp = IsoFormat(store[i].created_at)
                    /\ row.sent_by_me = (store[i].sender = resp.user)

----------------------------------------------------------------------------
(* C15: the inbox of u answers with a summary for every conversation       *)
(* (c, L) of u, and the unread_count of each is the number of stored       *)
(* messages from c to u that are unread and were sent for L, the messages  *)
(* sent for no listing being a conversation of their own.                  *)
C15_UnreadCountScoped ==
    InboxCalled =>
        /\ resp.status = 200
        /\ \A cl \in ConvsOf(resp.user) : RowsFor(cl[1], cl[2]) # {}
        /\ \A c \in Users, L \in Listings : \A k \in RowsFor(c, L) :
            resp.body[k].unread_count =
                Cardinality({i \in Ids :
                    /\ store[i].sender = c
                    /\ store[i].receiver = resp.user
                    /\ ~store[i].is_read
                    /\ Scope(i) = L})

----------------------------------------------------------------------------
(* C16: in every step, every stored message stays stored with all its      *)
(* fields but is_read as they were; is_read never goes back to false, and  *)
(* it changes only in a GetThread call made by the receiver of the         *)
(* message.                                                                *)
C16_OnlyReceiverMarksRead ==
    [][\A i \in Ids :
        /\ i \in DOMAIN store'
        /\ DOMAIN store'[i] = DOMAIN store[i]
        /\ \A f \in DOMAIN store[i] \ {"is_read"} : store'[i][f] = store[i][f]
        /\ store[i].is_read => store'[i].is_read
        /\ store'[i].is_read # store[i].is_read =>
            /\ resp'.op = "thread"
            /\ resp'.user = store[i].receiver]_vars

\* A receiver opened a thread and one of two stored messages became read
C16_Witness ==
    /\ resp.op = "thread"
    /\ \E i, j \in Ids :
        /\ store[i].receiver = resp.user /\ store[i].is_read
        /\ ~store[j].is_read

----------------------------------------------------------------------------
(* C17: a send whose receiver id is a well-formed id of no identity fails  *)
(* with 404, and so does a send that passed the receiver checks and names, *)
(* by a well-formed id, a listing that does not exist; a send that fails,  *)
(* whatever the failure, leaves the stored messages as they were.          *)
C17_SendFailures ==
    [][(resp'.op = "send") =>
        /\ (IsOidText(resp'.to) /\ ~UserExists(PydanticObjectId(resp'.to)))
                => resp'.status = 404
        /\ (/\ resp'.to # Str(resp'.user)
            /\ IsOidText(resp'.to)
            /\ UserExists(PydanticObjectId(resp'.to))
            /\ Truthy(resp'.product)
            /\ IsOidText(resp'.product)
            /\ ~ProductExists(PydanticObjectId(resp'.product)))
                => resp'.status = 404
        /\ resp'.status # 200 => store' = store /\ requested' = requested]_vars

\* Sends were refused for an unknown receiver, or for an unknown listing,
\* with a message in the store
C17_Witness ==
    /\ resp.op = "send"
    /\ resp.status = 404
    /\ resp.detail = "Product not found"
    /\ Len(store) > 0

C17_ReceiverNotFound ==
    resp.op = "send" /\ resp.status = 404 /\ resp.detail = "Receiver not found"

----------------------------------------------------------------------------
(* C18: a thread call whose counterpart id is a well-formed id of no       *)
(* identity fails with 404, and so does one whose counterpart exists and   *)
(* that names, by a well-formed id, a listing that does not exist; a       *)
(* thread call that fails changes the is_read of no message.               *)
C18_ThreadFailures ==
    [][(resp'.op = "thread") =>
        /\ (IsOidText(resp'.to) /\ ~UserExists(PydanticObjectId(resp'.to)))
                => resp'.status = 404
        /\ (/\ IsOidText(resp'.to)
            /\ UserExists(PydanticObjectId(resp'.to))
            /\ Truthy(resp'.product)
            /\ IsOidText(resp'.product)
            /\ ~ProductExists(PydanticObjectId(resp'.product)))
                => resp'.status = 404
        /\ resp'.status # 200 =>
                /\ Len(store') = Len(store)
                /\ \A i \in Ids : store'[i].is_read = store[i].is_read]_vars

\* A thread call for an unknown listing failed while the thread without
\* listing holds a message the caller has not read
C18_Witness ==
    /\ resp.op = "thread"
    /\ resp.status = 404
    /\ resp.detail = "Product not found"
    /\ \E i \in Ids :
        /\ store[i].sender = RespPeer
        /\ store[i].receiver = resp.user
        /\ ~store[i].is_read

----------------------------------------------------------------------------
(* C19 *)

\* A message involving the caller of the inbox was sent for a listing that
\* is no longer in the store
ListingGone == \E i \in Involved : Scope(i) # None /\ ~ProductExists(Scope(i))

----------------------------------------------------------------------------
(* C20 *)

\* The result the resolver is to give for the seller reference s
ClaimedSellerId(s) ==
    CASE s.shape = "link" /\ UserExists(s.id) -> Str(s.id)
      [] s.shape = "dict" /\ "id" \in s.keys -> StrOf(s.id)
      [] s.shape = "dict" /\ "id" \notin s.keys /\ "$id" \in s.keys ->
            IF s.dbref.kind = "dict" /\ "$oid" \in s.dbref.keys
            THEN StrOf(s.dbref.v)
            ELSE StrOf(s.dbref)
      [] s.shape = "str" -> s.id
      [] OTHER -> None

Resolved == resp.op = "seller_id"
ResolvedRef == products[resp.product].seller

\* C20: the resolver raises on no reference, gives for a link the id of
\* the fetched document, for a mapping with "id" that value as a string,
\* for a mapping with "$id" the nested "$oid" if there is one and else the
\* "$id" value, for a string the string, and None for anything else, a
\* link whose fetch fails included.
C20_ResolverTotal ==
    Resolved =>
        /\ ~resp.body.raised
        /\ resp.body.value = ClaimedSellerId(ResolvedRef)

\* The resolver was called on a link whose fetch fails
C20_Witness ==
    /\ Resolved
    /\ HasFetch(ResolvedRef)
    /\ FetchSeller(ResolvedRef).raised
    /\ resp.body = Returned(None)

\* The resolver was called on a DBRef-like mapping with a nested "$oid"
C20_NestedOid ==
    /\ Resolved
    /\ ResolvedRef.shape = "dict"
    /\ "$id" \in ResolvedRef.keys
    /\ ResolvedRef.dbref.kind = "dict"
    /\ resp.body = Returned(Alice)

----------------------------------------------------------------------------
(* C22: no step appends a message sent for a listing L by someone other    *)
(* than the resolved seller of L while the sold flag of L is true, however *)
(* the send and the mark-sold of L interleave.                             *)
C22_NoAppendAfterSold ==
    [][Len(store') = Len(store) + 1 =>
        LET L == requested'[Len(store')] IN
        (/\ L # None
         /\ ProductExists(L)
         /\ Str(store'[Len(store')].sender) # Str(ProductSellerId(products[L])))
        => ~products[L].is_sold]_vars

----------------------------------------------------------------------------
(* C21: the inbox of u answers with a summary for every conversation of u; *)
(* its last_message is the whole content of the representative, and its    *)
(* preview is that content when it has at most 40 characters, and its      *)
(* first 40 characters followed by "..." when it has more.                 *)
C21_PreviewTruncation ==
    InboxCalled =>
        /\ resp.status = 200
        /\ \A cl \in ConvsOf(resp.user) :
            /\ RowsFor(cl[1], cl[2]) # {}
            /\ \A k \in RowsFor(cl[1], cl[2]) :
                \E i \in Latest(Conversation(resp.user, cl[1], cl[2])) :
                    LET content == store[i].content IN
                    /\ resp.body[k].last_message = content
                    /\ resp.body[k].preview =
                        IF Len(content) <= PreviewLen
                        THEN content
                        ELSE [j \in 1..(PreviewLen + 3) |->
                                IF j <= PreviewLen THEN content[j] ELSE "."]

----------------------------------------------------------------------------
(* C23 *)

\* The stored messages that user u sent or received
OwnMessages(u) == {i \in Ids : store[i].sender = u \/ store[i].receiver = u}

\* C23: what list-my-messages and GetThread return to u are messages that
\* u sent or received, every summary of the inbox of u shows the content
\* of such a message, and the unread count of u is the number of unread
\* messages whose receiver is u.
C23_Privacy ==
    /\ resp.op = "my_messages" =>
        \A k \in DOMAIN resp.body :
            /\ resp.body[k].id \in OwnMessages(resp.user)
            /\ resp.body[k] = store[resp.body[k].id]
    /\ ThreadOk =>
        \A k \in DOMAIN resp.body.messages :
            /\ resp.body.messages[k].id \in OwnMessages(resp.user)
            /\ resp.body.messages[k].content = store[resp.body.messages[k].id].content
    /\ (InboxCalled /\ resp.status = 200) =>
        \A k \in DOMAIN resp.body :
            \E i \in OwnMessages(resp.user) :
                /\ resp.body[k].last_message = store[i].content
                /\ resp.body[k].user_id = Str(Counterpart(i, resp.user))
    /\ resp.op = "unread_count" =>
        resp.body = Cardinality({i \in Ids : store[i].receiver = resp.user /\ ~store[i].is_read})

\* A thread was returned to its reader while the store holds a message
\* between the two other users
C23_Witness ==
    /\ ThreadOk
    /\ resp.body.messages # <<>>
    /\ Ids \ OwnMessages(resp.user) # {}

\* The messages of a user were listed, and counted, with such a message
\* in the store
C23_Listed ==
    /\ resp.op = "my_messages"
    /\ resp.body # <<>>
    /\ Ids \ OwnMessages(resp.user) # {}

C23_Counted ==
    /\ resp.op = "unread_count"
    /\ resp.body > 0
    /\ \E i \in Ids : store[i].receiver # resp.user /\ ~store[i].is_read

----------------------------------------------------------------------------
(* C24: the is_read a thread call reports for each message it returns is   *)
(* the value stored when the call began: a message from the counterpart    *)
(* that was unread then is returned with is_read = false, and is stored    *)
(* with is_read = true when the call has completed.                        *)
C24_ReportsValueBeforeFlip ==
    [][(Idle /\ resp'.op = "thread" /\ resp'.status = 200) =>
        \A k \in DOMAIN resp'.body.messages :
            LET item == resp'.body.messages[k]
                i == item.id
            IN  /\ i \in Ids
                /\ item.is_read = store[i].is_read
                /\ (/\ store[i].sender = PydanticObjectId(resp'.to)
                    /\ store[i].receiver = resp'.user
                    /\ ~store[i].is_read)
                   => ~item.is_read /\ store'[i].is_read]_vars

\* A thread of two messages was returned: one sent by the reader, one
\* received, reported unread and stored read
C24_Witness ==
    /\ ThreadOk
    /\ \E j, k \in DOMAIN resp.body.messages :
        /\ resp.body.messages[j].sent_by_me
        /\ ~resp.body.messages[k].sent_by_me
        /\ ~resp.body.messages[k].is_read
        /\ store[resp.body.messages[k].id].is_read

----------------------------------------------------------------------------
(* C25 *)

MutationOps == {"update_product", "delete_product", "mark_sold"}

\* The caller is the resolved seller of the listing, or an admin
Authorized(u, pid) ==
    Str(ClaimedSellerId(products[pid].seller)) = Str(u) \/ Role(u) = "admin"

\* C25: an update, a delete or a mark-sold of an existing listing succeeds
\* only for its resolved seller or an admin; for any other caller, also
\* when the seller cannot be resolved, it fails with 403 "Not authorized"
\* and leaves the listing as it was.
C25_MutationAuthorized ==
    [][(/\ Idle
        /\ resp'.op \in MutationOps
        /\ IsOidText(resp'.product)
        /\ ProductExists(PydanticObjectId(resp'.product))) =>
        LET pid == PydanticObjectId(resp'.product) IN
        /\ resp'.status = 200 => Authorized(resp'.user, pid)
        /\ ~Authorized(resp'.user, pid) =>
            /\ resp'.status = 403
            /\ resp'.detail = "Not authorized"
            /\ products' = products]_vars

\* An update of a listing whose seller cannot be resolved was refused; the
\* admin deleted a listing
C25_Witness ==
    /\ resp.op = "update_product"
    /\ resp.status = 403
    /\ ProductExists(resp.product)
    /\ ClaimedSellerId(products[resp.product].seller) = None

C25_AdminDeleted ==
    /\ resp.op = "delete_product"
    /\ resp.status = 200
    /\ resp.user = Carol

====
